---- MODULE Spec2Model ----
(***************************************************************************)
(* A model of setup.py: the bootstrap script that loads setup-config.json, *)
(* locates an interpreter, optionally removes the virtual environment,     *)
(* and then creates it / installs requirements / runs the main script      *)
(* according to the mode given on the command line.                        *)
(*                                                                         *)
(* One run of the script is a sequence of steps (pc); between two steps    *)
(* lies one child process or one function call of the source.  The file    *)
(* system persists from one run to the next.  Strings that the code only   *)
(* compares are TLA+ strings; strings whose characters the code inspects   *)
(* (the version and the output of "<cmd> --version") are sequences of      *)
(* characters.  Paths are relative to script_dir.                          *)
(*                                                                         *)
(* The configuration file, when it exists, holds a JSON object, and the    *)
(* paths it names are distinct.  The calls on the file system are taken to *)
(* succeed, except os.remove of the temporary file, whose failure the code *)
(* catches.  A child process touches the file system only as the code      *)
(* relies on: "python -m venv" makes the environment directory.            *)
(***************************************************************************)
EXTENDS Integers, Sequences, FiniteSets, TLC

(* ---------------- bounds of the model ---------------- *)

\* longest command line explored (number of arguments after the script name)
MaxArgs == 2

\* largest exit status a failing child process reports (statuses 1..MaxChildStatus)
MaxChildStatus == 2

(* ---------------- words of the command line ---------------- *)

ModeTokens == {"install-only", "run-only", "full"}

Reserved == {"install-only", "run-only", "full", "--clean"}

\* the words a command line is made of: the recognised ones and two others
Tokens == Reserved \cup {"--foo", "bar"}

RECURSIVE SeqsUpTo(_, _)
SeqsUpTo(S, n) ==
    IF n = 0 THEN {<<>>}
    ELSE LET shorter == SeqsUpTo(S, n - 1)
         IN  shorter \cup {Append(s, x) : s \in {t \in shorter : Len(t) = n - 1}, x \in S}

ArgLists == SeqsUpTo(Tokens, MaxArgs)

\* command lines one argument longer, explored from fewer starting states
LongArgLists == SeqsUpTo(Tokens, MaxArgs + 1)

\* the command lines repeated runs are explored with: each mode, with and without --clean
RerunArgLists ==
    { <<>>, <<"full">>, <<"install-only">>, <<"run-only">>,
      <<"--clean">>, <<"--clean", "install-only">>, <<"run-only", "--clean">> }

(* ---------------- the configuration file ---------------- *)

ConfigPath == "setup-config.json"

TempFile == "tempCodeRunnerFile.py"

\* the JSON object written when the file is missing, as its key/value pairs in order
default_config ==
    << <<"project_name", "UnnamedProject">>,
       <<"main_file", "main.py">>,
       <<"requirements_file", "requirements.txt">>,
       <<"venv_dir", "venv">>,
       <<"python_version", "3.12">> >>

\* a configuration file a user wrote: every field set, none to its default
CustomConfigText ==
    << <<"project_name", "Demo">>,
       <<"main_file", "app.py">>,
       <<"requirements_file", "deps.txt">>,
       <<"venv_dir", ".venv">>,
       <<"python_version", "3.1">> >>

\* a configuration file that sets one field only
PartialConfigText == << <<"project_name", "Bare">> >>

\* json.dump of a flat object: its pairs in insertion order
JsonDump(pairs) == pairs

\* json.load: the dict of the pairs, the last occurrence of a key winning
JsonLoad(text) ==
    LET keys == {text[i][1] : i \in DOMAIN text}
        last(k) == CHOOSE i \in DOMAIN text :
                      /\ text[i][1] = k
                      /\ \A j \in DOMAIN text : text[j][1] = k => j <= i
    IN  [k \in keys |-> text[last(k)][2]]

\* dict.get(key, default)
Get(d, key, default) == IF key \in DOMAIN d THEN d[key] ELSE default

NoConfig == JsonLoad(<<>>)

(* ---------------- the interpreter locator ---------------- *)

\* the characters of the version strings the configurations use
Chars(s) ==
    CASE s = "3.12" -> <<"3", ".", "1", "2">>
      [] s = "3.1"  -> <<"3", ".", "1">>

Whitespace == {" ", "\n"}

\* what "<cmd> --version" may print
ProbeOutputs ==
    { <<"P", "y", "t", "h", "o", "n", " ", "3", ".", "1", "2", "\n">>,
      <<"P", "y", "t", "h", "o", "n", " ", "3", ".", "1", "\n">> }

\* the outcome of one probe: the command ran and printed out, or check_output raised
ProbeResults ==
    {[ok |-> TRUE, out |-> o] : o \in ProbeOutputs} \cup {[ok |-> FALSE, out |-> <<>>]}

\* str.strip(): leading and trailing whitespace removed
RECURSIVE LStrip(_)
LStrip(s) == IF s # <<>> /\ Head(s) \in Whitespace THEN LStrip(Tail(s)) ELSE s

RECURSIVE RStrip(_)
RStrip(s) ==
    IF s # <<>> /\ s[Len(s)] \in Whitespace THEN RStrip(SubSeq(s, 1, Len(s) - 1)) ELSE s

Strip(s) == RStrip(LStrip(s))

\* str.endswith(suffix)
EndsWith(s, suffix) ==
    /\ Len(suffix) <= Len(s)
    /\ SubSeq(s, Len(s) - Len(suffix) + 1, Len(s)) = suffix

\* the candidates from the least to the most specific
Candidates_reversed(version) ==
    <<"python", "python" \o Chars(version)[1], "python" \o version>>

\* candidates = [f"python{version}", f"python{version[0]}", "python"]
Candidates(version) ==
    <<"python" \o version, "python" \o Chars(version)[1], "python">>

\* the value of None
None == ""

\* lines 46-47: the probe ran, and its output, stripped, ends with the version
Accepts(version, result) == result.ok /\ EndsWith(Strip(result.out), Chars(version))

\* the loop of find_python_executable from candidate i on; outcomes[i] is what running
\* candidates[i] gives.  The value is <<the command returned, the number of probes run>>.
RECURSIVE ProbeFrom(_, _, _)
ProbeFrom(version, outcomes, i) ==
    LET candidates == Candidates(version)
    IN  IF i > Len(candidates) THEN <<None, i - 1>>
        ELSE IF Accepts(version, outcomes[i]) THEN <<candidates[i], i>>
        ELSE ProbeFrom(version, outcomes, i + 1)

find_python_executable(version, outcomes) == ProbeFrom(version, outcomes, 1)[1]

\* the number of candidates find_python_executable ran
probes_run(version, outcomes) == ProbeFrom(version, outcomes, 1)[2]

\* sys.executable
SysExecutable == "sys.executable"

\* os.path.join(venv_dir, "bin", tool) on a posix system
get_tool_path(venv, tool) == venv \o "/bin/" \o tool

(* ---------------- the state ---------------- *)

VARIABLES
    pc,                 \* where the run is: "idle" before a run, "done" after the process exited
    argv,               \* sys.argv[1:] of the run
    files,              \* the paths that exist (the environment directory is one path)
    config_text,        \* the content of setup-config.json, <<>> while it does not exist
    entry_config,       \* config of the __main__ block (line 184)
    config,             \* config of main() (line 130)
    probed,             \* the outcomes of the probes find_python_executable ran, while main() selects the interpreter
    selected_python,    \* main()'s selected_python
    mode,               \* main()'s mode
    clean_requested,    \* main()'s clean_requested
    log,                \* the phases the run performed, in order, each with its child's command and exit status
    temp_remove_failed, \* os.remove of the temporary file raised
    exit_status,        \* the exit status of the process, -1 while it runs
    exit_reason,        \* how the process ended
    files0,             \* the paths that existed when the run started
    config_text0,       \* the content of setup-config.json when the run started
    writes,             \* the paths the run created, wrote or removed
    prev                \* the previous run: its mode, clean flag, phases and exit status

vars == <<pc, argv, files, config_text, entry_config, config, probed, selected_python,
          mode, clean_requested, log, temp_remove_failed, exit_status, exit_reason,
          files0, config_text0, writes, prev>>

world == <<files, config_text, writes>>
locals == <<entry_config, config, probed, selected_python, mode, clean_requested>>
outcome == <<log, temp_remove_failed, exit_status, exit_reason>>
history == <<argv, files0, config_text0, prev>>

\* main()'s locals main_file, requirements_file, venv_dir, python_version (lines 133-136)
main_file == Get(config, "main_file", "main.py")
requirements_file == Get(config, "requirements_file", "requirements.txt")
venv_dir == Get(config, "venv_dir", "venv")
python_version == Get(config, "python_version", "3.12")

NoProbe == <<>>

NoRun == [mode |-> None, clean |-> FALSE, ops |-> <<>>, exit |-> -1]

\* the names of the phases of a log
Ops(l) == [i \in DOMAIN l |-> l[i].op]

\* the paths a configuration text names, and the temporary file
PathsOf(text) ==
    LET c == JsonLoad(text)
    IN  { Get(c, "main_file", "main.py"), Get(c, "requirements_file", "requirements.txt"),
          Get(c, "venv_dir", "venv"), TempFile }

\* before the first run: the configuration file is missing or has one of the texts, and
\* any of the paths it names may exist
InitWith(texts) ==
    /\ pc = "idle"
    /\ argv = <<>>
    /\ \E text \in texts :
          /\ config_text = text
          /\ \E present \in SUBSET PathsOf(IF text = <<>> THEN default_config ELSE text) :
                files = present \cup (IF text = <<>> THEN {} ELSE {ConfigPath})
    /\ entry_config = NoConfig
    /\ config = NoConfig
    /\ probed = NoProbe
    /\ selected_python = None
    /\ mode = None
    /\ clean_requested = FALSE
    /\ log = <<>>
    /\ temp_remove_failed = FALSE
    /\ exit_status = -1
    /\ exit_reason = None
    /\ files0 = files
    /\ config_text0 = config_text
    /\ writes = {}
    /\ prev = NoRun

(* ---------------- the steps of a run ---------------- *)

\* the process exits with the given status
Exit(status, reason) ==
    /\ pc' = "done"
    /\ exit_status' = status
    /\ exit_reason' = reason

\* a failure that is swallowed: the process ends with status 0
Uncaught_status_zero(reason) == Exit(0, reason)

\* an uncaught exception: the interpreter prints the traceback and exits with status 1
Uncaught(reason) == Exit(1, reason)

\* one phase, with the command line of its child and the child's exit status
Phase(op, cmd, rc) == [op |-> op, cmd |-> cmd, rc |-> rc]

\* the exit statuses of a child process
ChildStatuses == 0..MaxChildStatus

\* a process "python setup.py <args>" begins
Begin(args) ==
    /\ pc' = "entry"
    /\ argv' = args
    /\ files0' = files
    /\ config_text0' = config_text
    /\ writes' = {}
    /\ entry_config' = NoConfig
    /\ config' = NoConfig
    /\ probed' = NoProbe
    /\ selected_python' = None
    /\ mode' = None
    /\ clean_requested' = FALSE
    /\ log' = <<>>
    /\ temp_remove_failed' = FALSE
    /\ exit_status' = -1
    /\ exit_reason' = None
    /\ UNCHANGED <<files, config_text>>

\* the first run
StartRun(args) ==
    /\ pc = "idle"
    /\ Begin(args)
    /\ UNCHANGED prev

\* the script is run again after a run has ended; the file system is as that run left it
Rerun(args) ==
    /\ pc = "done"
    /\ Begin(args)
    /\ prev' = [mode |-> mode, clean |-> clean_requested, ops |-> Ops(log), exit |-> exit_status]

\* a load that writes the defaults whether or not the file exists
ConfigTextAfterLoad_rewrites == JsonDump(default_config)

\* load_config (lines 7-31): the file after the call, and the dict returned
ConfigTextAfterLoad ==
    IF ConfigPath \notin files THEN JsonDump(default_config) ELSE config_text

load_config == JsonLoad(ConfigTextAfterLoad)

LoadConfigEffect ==
    /\ config_text' = ConfigTextAfterLoad
    /\ files' = files \cup {ConfigPath}
    /\ writes' = IF ConfigPath \notin files THEN writes \cup {ConfigPath} ELSE writes

\* the __main__ block, lines 184-185
EntryLoad ==
    /\ pc = "entry"
    /\ entry_config' = load_config
    /\ LoadConfigEffect
    /\ pc' = "main"
    /\ UNCHANGED <<config, probed, selected_python, mode, clean_requested>>
    /\ UNCHANGED <<log, temp_remove_failed, exit_status, exit_reason>>
    /\ UNCHANGED history

\* main(), lines 130-137
MainLoad ==
    /\ pc = "main"
    /\ config' = load_config
    /\ LoadConfigEffect
    /\ pc' = "find"
    /\ UNCHANGED <<entry_config, probed, selected_python, mode, clean_requested>>
    /\ UNCHANGED <<log, temp_remove_failed, exit_status, exit_reason>>
    /\ UNCHANGED history

\* main(), lines 140-144: the fallback to the running interpreter
select_python(found) == IF found = None THEN SysExecutable ELSE found

\* main(), lines 139-144: the call of find_python_executable and the fallback
FindPython ==
    /\ pc = "find"
    /\ \E outcomes \in [1..3 -> ProbeResults] :
          /\ probed' = SubSeq(outcomes, 1, probes_run(python_version, outcomes))
          /\ selected_python' = select_python(find_python_executable(python_version, outcomes))
    /\ pc' = "parse"
    /\ UNCHANGED <<entry_config, config, mode, clean_requested>>
    /\ UNCHANGED <<world, outcome, history>>

\* the loop of lines 150-154 from argument i on
RECURSIVE ScanArgs(_, _, _, _)
ScanArgs(args, i, m, c) ==
    IF i > Len(args) THEN <<m, c>>
    ELSE IF args[i] \in {"install-only", "run-only", "full"} THEN ScanArgs(args, i + 1, args[i], c)
    ELSE IF args[i] = "--clean" THEN ScanArgs(args, i + 1, m, TRUE)
    ELSE ScanArgs(args, i + 1, m, c)

\* a parser in which the first mode token wins
parse_args_first_wins(args) ==
    LET modes == {i \in DOMAIN args : args[i] \in {"install-only", "run-only", "full"}}
    IN  [mode |-> IF modes = {} THEN "full"
                  ELSE args[CHOOSE i \in modes : \A j \in modes : i <= j],
         clean |-> ScanArgs(args, 1, None, FALSE)[2]]

\* lines 146-156: mode and clean_requested
parse_args(args) ==
    LET r == ScanArgs(args, 1, None, FALSE)
    IN  [mode |-> IF r[1] = None THEN "full" ELSE r[1], clean |-> r[2]]

ParseArgs ==
    /\ pc = "parse"
    /\ mode' = parse_args(argv).mode
    /\ clean_requested' = parse_args(argv).clean
    /\ probed' = NoProbe
    /\ pc' = "clean"
    /\ UNCHANGED <<entry_config, config, selected_python>>
    /\ UNCHANGED <<world, outcome, history>>

\* a removal that does not ask whether --clean was given
ShouldClean_unasked == venv_dir \in files

\* a removal that is never made
ShouldClean_never == FALSE

\* lines 158-160
ShouldClean == clean_requested /\ venv_dir \in files

Clean ==
    /\ pc = "clean"
    /\ IF ShouldClean
       THEN /\ files' = files \ {venv_dir}
            /\ writes' = writes \cup {venv_dir}
            /\ log' = Append(log, Phase("remove", <<>>, 0))
       ELSE UNCHANGED <<files, writes, log>>
    /\ pc' = "dispatch"
    /\ UNCHANGED <<config_text, temp_remove_failed, exit_status, exit_reason>>
    /\ UNCHANGED <<locals, history>>

\* an environment created whether or not its directory exists
Branch_always_creates ==
    IF mode \in {"install-only", "full"} THEN "create"
    ELSE IF mode = "run-only"
    THEN IF venv_dir \notin files THEN "exit" ELSE "run"
    ELSE "usage"

\* a run-only that creates the environment it does not find
Branch_run_only_creates ==
    IF mode \in {"install-only", "full"}
    THEN IF venv_dir \notin files THEN "create" ELSE "install"
    ELSE IF mode = "run-only"
    THEN IF venv_dir \notin files THEN "create" ELSE "run"
    ELSE "usage"

\* lines 162-179: where the mode sends the run
Branch ==
    IF mode \in {"install-only", "full"}
    THEN IF venv_dir \notin files THEN "create" ELSE "install"
    ELSE IF mode = "run-only"
    THEN IF venv_dir \notin files THEN "exit" ELSE "run"
    ELSE "usage"

Dispatch ==
    /\ pc = "dispatch"
    /\ IF Branch = "exit" THEN Exit(1, "venv_missing")
       ELSE IF Branch = "usage" THEN Exit(1, "unknown_mode")
       ELSE /\ pc' = Branch
            /\ UNCHANGED <<exit_status, exit_reason>>
    /\ UNCHANGED <<log, temp_remove_failed>>
    /\ UNCHANGED <<world, locals, history>>

\* create_virtualenv, lines 74-75: python -m venv.  A child that succeeds has made the
\* directory; one that fails may have left a part of it behind.
CreateVenv ==
    /\ pc = "create"
    /\ \E rc \in ChildStatuses :
          /\ log' = Append(log, Phase("create", <<selected_python, "-m", "venv", venv_dir>>, rc))
          /\ IF rc = 0
             THEN /\ files' = files \cup {venv_dir}
                  /\ writes' = writes \cup {venv_dir}
                  /\ pc' = "upgrade"
                  /\ UNCHANGED <<exit_status, exit_reason>>
             ELSE /\ \E left \in BOOLEAN :
                        /\ files' = IF left THEN files \cup {venv_dir} ELSE files
                        /\ writes' = IF left THEN writes \cup {venv_dir} ELSE writes
                  /\ Uncaught("child_failed")
    /\ UNCHANGED <<config_text, temp_remove_failed>>
    /\ UNCHANGED <<locals, history>>

\* create_virtualenv, lines 76-77: pip install --upgrade pip
UpgradePip ==
    /\ pc = "upgrade"
    /\ \E rc \in ChildStatuses :
          /\ log' = Append(log, Phase("upgrade",
                       <<get_tool_path(venv_dir, "python"), "-m", "pip", "install", "--upgrade", "pip">>, rc))
          /\ IF rc = 0
             THEN /\ pc' = "install"
                  /\ UNCHANGED <<exit_status, exit_reason>>
             ELSE Uncaught("child_failed")
    /\ UNCHANGED temp_remove_failed
    /\ UNCHANGED <<world, locals, history>>

\* an install-only that returns without the cleanup
AfterInstall_skips_cleanup == IF mode = "full" THEN "run" ELSE "done"

\* lines 165 and 174-175: what follows the installation
AfterInstall == IF mode = "full" THEN "run" ELSE "cleanup"

\* install_requirements, lines 87-92
InstallRequirements ==
    /\ pc = "install"
    /\ files' = files \cup {requirements_file}
    /\ writes' = IF requirements_file \notin files THEN writes \cup {requirements_file} ELSE writes
    /\ \E rc \in ChildStatuses :
          /\ log' = Append(log, Phase("install",
                       <<get_tool_path(venv_dir, "pip"), "install", "-r", requirements_file>>, rc))
          /\ IF rc = 0
             THEN /\ pc' = AfterInstall
                  /\ UNCHANGED <<exit_status, exit_reason>>
             ELSE Uncaught("child_failed")
    /\ UNCHANGED <<config_text, temp_remove_failed>>
    /\ UNCHANGED <<locals, history>>

\* line 108: the arguments forwarded to the script, from argument i on
RECURSIVE ForwardFrom(_, _)
ForwardFrom(args, i) ==
    IF i > Len(args) THEN <<>>
    ELSE IF args[i] \notin {"install-only", "run-only", "full", "--clean"}
    THEN <<args[i]>> \o ForwardFrom(args, i + 1)
    ELSE ForwardFrom(args, i + 1)

\* a filter that forgets --clean
forwarded_args_keeps_clean(args) ==
    SelectSeq(args, LAMBDA a : a \notin {"install-only", "run-only", "full"})

forwarded_args(args) == ForwardFrom(args, 1)

\* run_main_script, lines 102-109
RunMainScript ==
    /\ pc = "run"
    /\ files' = files \cup {main_file}
    /\ writes' = IF main_file \notin files THEN writes \cup {main_file} ELSE writes
    /\ \E rc \in ChildStatuses :
          /\ log' = Append(log, Phase("run",
                       <<get_tool_path(venv_dir, "python"), main_file>> \o forwarded_args(argv), rc))
          /\ IF rc = 0
             THEN /\ pc' = "cleanup"
                  /\ UNCHANGED <<exit_status, exit_reason>>
             ELSE Uncaught("child_failed")
    /\ UNCHANGED <<config_text, temp_remove_failed>>
    /\ UNCHANGED <<locals, history>>

\* cleanup_temp_files, lines 118-124, and the end of main()
CleanupTempFiles ==
    /\ pc = "cleanup"
    /\ log' = Append(log, Phase("cleanup", <<>>, 0))
    /\ IF TempFile \in files
       THEN \E removed \in BOOLEAN :
               /\ files' = IF removed THEN files \ {TempFile} ELSE files
               /\ writes' = IF removed THEN writes \cup {TempFile} ELSE writes
               /\ temp_remove_failed' = ~removed
       ELSE UNCHANGED <<files, writes, temp_remove_failed>>
    /\ Exit(0, "ok")
    /\ UNCHANGED config_text
    /\ UNCHANGED <<locals, history>>

Step ==
    \/ EntryLoad
    \/ MainLoad
    \/ FindPython
    \/ ParseArgs
    \/ Clean
    \/ Dispatch
    \/ CreateVenv
    \/ UpgradePip
    \/ InstallRequirements
    \/ RunMainScript
    \/ CleanupTempFiles

\* one run, from every starting state
Init == InitWith({<<>>, CustomConfigText, PartialConfigText})

Next ==
    \/ \E args \in ArgLists : StartRun(args)
    \/ Step

Spec == Init /\ [][Next]_vars

\* one run with a longer command line, the configuration file being the user's
InitArgs == InitWith({CustomConfigText}) /\ {"app.py", "deps.txt"} \subseteq files

NextArgs ==
    \/ \E args \in LongArgLists : StartRun(args)
    \/ Step

SpecArgs == InitArgs /\ [][NextArgs]_vars

\* run after run, from a fresh checkout or from the user's configuration
InitRuns == InitWith({<<>>, CustomConfigText}) /\ files \subseteq {ConfigPath, TempFile}

NextRuns ==
    \/ \E args \in RerunArgLists : StartRun(args)
    \/ \E args \in RerunArgLists : Rerun(args)
    \/ Step

SpecRuns == InitRuns /\ [][NextRuns]_vars

(* ---------------- what the properties speak of ---------------- *)

\* the positions of the mode tokens of a command line
ModePositions(args) == {i \in DOMAIN args : args[i] \in ModeTokens}

\* the selected mode: the last mode token of the command line, full when there is none
LastMode(args) ==
    IF ModePositions(args) = {} THEN "full"
    ELSE args[CHOOSE i \in ModePositions(args) : \A j \in ModePositions(args) : j <= i]

HasClean(args) == \E i \in DOMAIN args : args[i] = "--clean"

\* the environment directory the configuration file names, as the run will see it
EnvPath ==
    Get(JsonLoad(IF config_text = <<>> THEN default_config ELSE config_text), "venv_dir", "venv")

EnvAtStart == EnvPath \in files0

\* the run is over
Done == pc = "done"

\* no child process of the run failed
AllChildrenSucceeded == \A i \in DOMAIN log : log[i].rc = 0

\* the phases of the run that are among remove, create, install, run
RECURSIVE MainPhases(_)
MainPhases(ops) ==
    IF ops = <<>> THEN <<>>
    ELSE IF Head(ops) \in {"remove", "create", "install", "run"}
         THEN <<Head(ops)>> \o MainPhases(Tail(ops))
         ELSE MainPhases(Tail(ops))

\* the documented phases of a run whose children all succeed
DocumentedPhases(args, envAtStart) ==
    LET remove == IF HasClean(args) /\ envAtStart THEN <<"remove">> ELSE <<>>
        absent == HasClean(args) \/ ~envAtStart
        create == IF absent THEN <<"create">> ELSE <<>>
    IN  CASE LastMode(args) = "install-only" -> remove \o create \o <<"install">>
          [] LastMode(args) = "run-only" -> remove \o (IF absent THEN <<>> ELSE <<"run">>)
          [] LastMode(args) = "full" -> remove \o create \o <<"install", "run">>

(* ---------------- C1 ---------------- *)

\* C1: in a run whose child processes all succeed, the phases performed among remove,
\* create, install and run are exactly, and in the order, the ones documented for the last
\* mode token of the command line (full when there is none) and for --clean: remove only
\* with --clean, create only when the environment directory is absent at dispatch, never
\* the script runner for install-only, never create or install for run-only.
C1_DocumentedPhases ==
    (Done /\ AllChildrenSucceeded) =>
        /\ mode = LastMode(argv)
        /\ clean_requested = HasClean(argv)
        /\ MainPhases(Ops(log)) = DocumentedPhases(argv, EnvAtStart)

\* a run whose last mode token is install-only, after an earlier full and with --clean
C1_Witness ==
    /\ Done /\ AllChildrenSucceeded
    /\ argv = <<"full", "--clean", "install-only">>
    /\ EnvAtStart
    /\ Ops(log) = <<"remove", "create", "upgrade", "install", "cleanup">>

(* ---------------- C2 ---------------- *)

\* a run in run-only mode started while the environment directory did not exist
RunOnlyWithoutEnv == pc # "idle" /\ LastMode(argv) = "run-only" /\ ~EnvAtStart

\* C2 as stated: such a run writes nothing at all and exits with status 1.
C2_NoWriteAtAll ==
    RunOnlyWithoutEnv =>
        /\ writes = {}
        /\ Done => exit_status = 1

\* C2, amended: such a run writes nothing but the default configuration file, and that only
\* when the file was missing; every other path is as it was, and the exit status is 1.
C2_OnlyDefaultConfigWritten ==
    RunOnlyWithoutEnv =>
        /\ writes \subseteq {ConfigPath}
        /\ ConfigPath \in writes => ConfigPath \notin files0
        /\ files \ {ConfigPath} = files0 \ {ConfigPath}
        /\ ConfigPath \in files0 => config_text = config_text0
        /\ Done => exit_status = 1 /\ exit_reason = "venv_missing" /\ log = <<>>

\* such a run, over, the configuration file having been there
C2_Witness ==
    /\ RunOnlyWithoutEnv /\ Done
    /\ ConfigPath \in files0
    /\ writes = {}
    /\ exit_status = 1

(* ---------------- C3 ---------------- *)

\* the run ended with "Virtual environment not found"
MissingEnvExit == Done /\ exit_reason = "venv_missing"

\* the environment directory, the requirements file and the entry script
Artefacts == {venv_dir, requirements_file, main_file}

\* C3 as stated: a run that ends with the missing-environment error, --clean or not, exits
\* with a non-zero status and leaves the environment directory, the requirements file and
\* the entry script as they were.
C3_NoSideEffect ==
    MissingEnvExit =>
        /\ exit_status # 0
        /\ files \cap Artefacts = files0 \cap Artefacts
        /\ writes \cap Artefacts = {}

\* C3, amended: such a run exits with status 1 and leaves the requirements file and the
\* entry script as they were; the environment directory is as it was unless --clean was
\* given and the directory existed, in which case the run has removed it.
C3_OnlyCleanRemoves ==
    MissingEnvExit =>
        /\ exit_status = 1
        /\ files \cap {requirements_file, main_file} = files0 \cap {requirements_file, main_file}
        /\ writes \cap {requirements_file, main_file} = {}
        /\ venv_dir \notin files
        /\ IF HasClean(argv) /\ venv_dir \in files0
           THEN Ops(log) = <<"remove">> /\ venv_dir \in writes
           ELSE log = <<>> /\ venv_dir \notin files0 /\ venv_dir \notin writes

\* run-only --clean on an existing environment: the directory is gone, the error is reported
C3_Witness ==
    /\ MissingEnvExit
    /\ HasClean(argv)
    /\ venv_dir \in files0
    /\ venv_dir \notin files

(* ---------------- C4 ---------------- *)

\* --clean was given and the environment directory existed when the run started
CleanOfExistingEnv == HasClean(argv) /\ EnvAtStart

\* C4 as stated: in each mode, --clean on an existing environment removes the directory
\* before the mode's own logic, and creation is then invoked in that run.
C4_RecreatedInEveryMode ==
    (CleanOfExistingEnv /\ Done) =>
        /\ Len(log) >= 2
        /\ log[1].op = "remove"
        /\ log[2].op = "create"

\* C4, amended: in each mode the directory is removed before the mode's own logic; creation
\* is then invoked in install-only and full, while run-only ends with the
\* missing-environment error (status 1) and creates nothing.
C4_RemovedBeforeDispatch ==
    CleanOfExistingEnv =>
        /\ pc = "dispatch" => Ops(log) = <<"remove">> /\ EnvPath \notin files
        /\ Done =>
              IF LastMode(argv) = "run-only"
              THEN Ops(log) = <<"remove">> /\ exit_reason = "venv_missing" /\ exit_status = 1
              ELSE Len(log) >= 2 /\ log[1].op = "remove" /\ log[2].op = "create"

\* install-only --clean on an existing environment: removed, then created again
C4_Witness ==
    /\ CleanOfExistingEnv /\ Done
    /\ LastMode(argv) = "install-only"
    /\ Ops(log) = <<"remove", "create", "upgrade", "install", "cleanup">>
    /\ EnvPath \in files

(* ---------------- C5 ---------------- *)

\* the positions of the arguments that are neither a mode token nor --clean
Kept(args) == {i \in DOMAIN args : args[i] \notin Reserved}

\* out is args without the reserved words: the k-th element of out is the k-th kept argument
IsArgsWithoutReserved(out, args) ==
    /\ Len(out) = Cardinality(Kept(args))
    /\ \A i \in Kept(args) : out[Cardinality({j \in Kept(args) : j <= i})] = args[i]

\* the arguments a script command line carries after the interpreter and the script
ScriptArgs(cmd) == SubSeq(cmd, 3, Len(cmd))

\* C5: whenever the script runner is invoked, the arguments after the entry script are the
\* command line without install-only, run-only, full and --clean, everything else verbatim,
\* in order and multiplicity; [full, --foo, bar] gives [--foo, bar].
C5_ForwardedArgs ==
    \A i \in DOMAIN log :
        log[i].op = "run" =>
            /\ log[i].cmd[1] = get_tool_path(venv_dir, "python")
            /\ log[i].cmd[2] = main_file
            /\ IsArgsWithoutReserved(ScriptArgs(log[i].cmd), argv)
            /\ argv = <<"full", "--foo", "bar">> => ScriptArgs(log[i].cmd) = <<"--foo", "bar">>

\* the script was run with a repeated argument around a reserved word
C5_Witness ==
    /\ argv = <<"bar", "--clean", "bar">>
    /\ \E i \in DOMAIN log : log[i].op = "run" /\ ScriptArgs(log[i].cmd) = <<"bar", "bar">>

(* ---------------- C6 ---------------- *)

Has(ops, op) == \E i \in DOMAIN ops : ops[i] = op

\* the run follows a successful run in full mode without --clean, and is one itself
FullAfterFull ==
    /\ prev.mode = "full" /\ ~prev.clean /\ prev.exit = 0
    /\ pc # "idle" /\ LastMode(argv) = "full" /\ ~HasClean(argv)

\* C6: of two successive successful runs in full mode without --clean, the second finds the
\* environment directory and does not invoke environment creation, while the installer and
\* the script runner are invoked in both.
C6_SecondFullRunDoesNotCreate ==
    FullAfterFull =>
        /\ EnvAtStart
        /\ pc \notin {"create", "upgrade"}
        /\ ~Has(Ops(log), "create") /\ ~Has(Ops(log), "upgrade")
        /\ Has(prev.ops, "install") /\ Has(prev.ops, "run")
        /\ (Done /\ exit_status = 0) => Has(Ops(log), "install") /\ Has(Ops(log), "run")

\* the first run created the environment, the second one only installed and ran
C6_Witness ==
    /\ FullAfterFull /\ Done /\ exit_status = 0
    /\ prev.ops = <<"create", "upgrade", "install", "run", "cleanup">>
    /\ Ops(log) = <<"install", "run", "cleanup">>

(* ---------------- C7 ---------------- *)

\* C7 as stated: when a child process fails with status c the run is over at once, no later
\* phase having been executed, and the exit status of the program is c; the program exits
\* with 0 only if every phase succeeded.
C7_ChildStatusPropagated ==
    /\ \A i \in DOMAIN log :
          log[i].rc # 0 => Done /\ i = Len(log) /\ exit_status = log[i].rc
    /\ (Done /\ exit_status = 0) => AllChildrenSucceeded

\* C7, amended: when a child process fails with status c the run is over at once, no later
\* phase having been executed, and the exit status of the program is 1 whatever c is (the
\* CalledProcessError is not caught); the program exits with 0 only if every phase succeeded.
C7_AbortsWithStatusOne ==
    /\ \A i \in DOMAIN log :
          log[i].rc # 0 =>
              /\ Done /\ i = Len(log)
              /\ exit_status = 1 /\ exit_reason = "child_failed"
    /\ (Done /\ exit_status = 0) => AllChildrenSucceeded

\* the installer failed with status 2 after the environment was created: nothing followed
C7_Witness ==
    /\ Done /\ exit_status = 1
    /\ Ops(log) = <<"create", "upgrade", "install">>
    /\ log[3].rc = 2
    /\ LastMode(argv) = "full"

(* ---------------- C8 ---------------- *)

\* the last phase of a mode's dispatch
FinalPhase(m) == IF m = "install-only" THEN "install" ELSE "run"

\* the dispatch of the run's mode has completed
DispatchCompleted ==
    \E i \in DOMAIN log : log[i].op = FinalPhase(LastMode(argv)) /\ log[i].rc = 0

\* C8: in every mode the cleanup of the temporary file comes right after the completed
\* dispatch and nowhere else, never on the missing-environment exit; a run whose os.remove
\* fails ends as it would have: normally, with status 0.
C8_CleanupAfterDispatch ==
    /\ (Done /\ DispatchCompleted) => log[Len(log)].op = "cleanup" /\ exit_status = 0
    /\ \A i \in DOMAIN log :
          log[i].op = "cleanup" =>
              /\ Done /\ i = Len(log) /\ i > 1
              /\ log[i - 1].op = FinalPhase(LastMode(argv)) /\ log[i - 1].rc = 0
    /\ MissingEnvExit => ~Has(Ops(log), "cleanup")
    /\ temp_remove_failed =>
          /\ Done /\ exit_status = 0 /\ exit_reason = "ok"
          /\ log[Len(log)].op = "cleanup"
          /\ TempFile \in files
    /\ (Done /\ exit_reason = "ok" /\ ~temp_remove_failed) => TempFile \notin files

\* install-only: the temporary file could not be removed, the run ended with status 0
C8_Witness ==
    /\ Done /\ temp_remove_failed
    /\ LastMode(argv) = "install-only"
    /\ exit_status = 0

(* ---------------- C9 ---------------- *)

\* the output, trailing whitespace apart, ends with the characters of the version
NamesVersion(out, v) ==
    \E j \in Len(v)..Len(out) :
        /\ SubSeq(out, j - Len(v) + 1, j) = v
        /\ \A k \in (j + 1)..Len(out) : out[k] \in Whitespace

\* the probe ran and reported the configured version
Matches(result) == result.ok /\ NamesVersion(result.out, Chars(python_version))

\* python<version>, python<major>, python
CandidateName(i) ==
    CASE i = 1 -> "python" \o python_version
      [] i = 2 -> "python3"
      [] i = 3 -> "python"

\* C9: the locator probes python<version>, python<major>, python in this order, skips a
\* candidate that cannot be run or reports another version, and stops at the first whose
\* output ends with the version; when none does, main() goes on with the running
\* interpreter; the environment is created with the interpreter so selected.
C9_FirstMatchingCandidate ==
    /\ pc = "parse" =>
          LET n == Len(probed)
          IN  /\ n \in 1..3
              /\ \A i \in 1..(n - 1) : ~Matches(probed[i])
              /\ IF Matches(probed[n])
                 THEN selected_python = CandidateName(n)
                 ELSE n = 3 /\ selected_python = SysExecutable
              /\ exit_status = -1
    /\ \A i \in DOMAIN log :
          log[i].op = "create" => log[i].cmd = <<selected_python, "-m", "venv", venv_dir>>

\* the first candidate cannot be run, the second reports another version, the third matches
C9_Witness ==
    /\ pc = "parse"
    /\ Len(probed) = 3
    /\ ~probed[1].ok
    /\ probed[2].ok /\ ~Matches(probed[2])
    /\ Matches(probed[3])
    /\ selected_python = "python"

\* no candidate matched and the environment was created with the running interpreter
C9_FallbackCreates ==
    \E i \in DOMAIN log : log[i].op = "create" /\ log[i].cmd[1] = SysExecutable /\ log[i].rc = 0

(* ---------------- C10 ---------------- *)

DocumentedDefaults ==
    [project_name |-> "UnnamedProject", main_file |-> "main.py",
     requirements_file |-> "requirements.txt", venv_dir |-> "venv", python_version |-> "3.12"]

\* the record d holds exactly what the text says
TextSays(text, d) ==
    /\ DOMAIN d = {text[i][1] : i \in DOMAIN text}
    /\ \A i \in DOMAIN text : d[text[i][1]] = text[i][2]

\* C10: a missing configuration file is created with the documented defaults, which the
\* load returns; an existing file is returned as it is and never written, by either load of
\* a run, by any later phase or by any later run, so that both loads return the same record.
C10_ConfigLoadedNotRewritten ==
    /\ pc \notin {"idle", "entry"} =>
          /\ ConfigPath \in files
          /\ IF ConfigPath \notin files0
             THEN /\ entry_config = DocumentedDefaults
                  /\ Len(config_text) = 5 /\ TextSays(config_text, DocumentedDefaults)
             ELSE TextSays(config_text0, entry_config)
    /\ pc \notin {"idle", "entry", "main"} => config = entry_config
    /\ (pc # "idle" /\ ConfigPath \in files0) =>
          /\ ConfigPath \in files /\ ConfigPath \notin writes
          /\ config_text = config_text0
    /\ prev.exit # -1 => ConfigPath \in files0

\* a second run has read, twice, the user's file that the first run left alone
C10_Witness ==
    /\ Done /\ prev.exit = 0
    /\ config_text = CustomConfigText
    /\ config = JsonLoad(CustomConfigText) /\ entry_config = config
    /\ Len(log) >= 3

====
